---- MODULE Spec2Model ----
(***************************************************************************)
(* Day 19 grammar recognizers (src/src/d19.rs): the rule map, the loop     *)
(* rewriter add_loop_to_rules, the backtracking recognizer                 *)
(* (is_message_valid_using_recursive_descent / check_if_matches_sequence), *)
(* the suffix-list recognizer (is_message_valid_using_list_of_suffixes)    *)
(* and the two counting drivers count_valid_messages and                   *)
(* count_valid_messages_p2.                                                *)
(*                                                                         *)
(* Messages are sequences of one-byte characters, so a byte offset and a   *)
(* character index coincide.  A Vec is a sequence; a HashMap is a function *)
(* whose DOMAIN is the set of keys.  A panic (missing key, index out of    *)
(* range, call stack exhausted) is the value of the field "panic" of a     *)
(* result; it propagates to the caller as an unwinding panic does.         *)
(***************************************************************************)
EXTENDS Integers, Sequences, FiniteSets, TLC

(***************************************************************************)
(* Rule (enum Rule): Char(char) or Alternatives(Vec<Vec<RuleId>>).         *)
(***************************************************************************)
Char(c) == [kind |-> "Char", ch |-> c, alts |-> <<>>]

Alternatives(a) == [kind |-> "Alternatives", ch |-> "", alts |-> a]

\* Vec::pop: removes the last element; on an empty vector it does nothing.
Pop(v) == IF Len(v) = 0 THEN v ELSE SubSeq(v, 1, Len(v) - 1)

\* iter().rev() of a slice.
Rev(s) == [i \in 1..Len(s) |-> s[Len(s) + 1 - i]]

RECURSIVE Flatten(_)
\* Iterator::flatten followed by collect_vec: the concatenation, in order.
Flatten(ss) == IF Len(ss) = 0 THEN <<>> ELSE Head(ss) \o Flatten(Tail(ss))

Range(s) == {s[i] : i \in DOMAIN s}

(***************************************************************************)
(* add_loop_to_rules: rule 8 and rule 11 are replaced when present, the    *)
(* helper rules 1000 and 2000 are inserted (HashMap::insert overwrites).   *)
(***************************************************************************)
Insert(r, k, v) == [id \in DOMAIN r \cup {k} |-> IF id = k THEN v ELSE r[id]]

ReplaceIfPresent(r, k, v) == IF k \in DOMAIN r THEN Insert(r, k, v) ELSE r

\* A rewriter that works on a copy and leaves the caller's map alone.
add_loop_to_copy(r) == r

\* A rewriter that pushes the helper alternative instead of replacing the
\* rule.
add_loop_appending(r) ==
    LET push(g, k, a) ==
            IF k \in DOMAIN g /\ g[k].kind = "Alternatives"
            THEN Insert(g, k, Alternatives(Append(g[k].alts, a)))
            ELSE g
        r1 == push(r, 8, <<1000>>)
        r2 == Insert(r1, 1000, Alternatives(<< <<42, 8>> >>))
        r3 == push(r2, 11, <<2000>>)
    IN  Insert(r3, 2000, Alternatives(<< <<42, 11, 31>> >>))

\* A rewriter whose helper rule 1000 is `1 8`.
add_loop_with_one_rule_helper(r) ==
    LET r1 == ReplaceIfPresent(r, 8, Alternatives(<< <<42>>, <<1000>> >>))
        r2 == Insert(r1, 1000, Alternatives(<< <<1, 8>> >>))
        r3 == ReplaceIfPresent(r2, 11, Alternatives(<< <<42, 31>>, <<2000>> >>))
    IN  Insert(r3, 2000, Alternatives(<< <<42, 11, 31>> >>))

add_loop_to_rules(r) ==
    LET r1 == ReplaceIfPresent(r, 8, Alternatives(<< <<42>>, <<1000>> >>))
        r2 == Insert(r1, 1000, Alternatives(<< <<42, 8>> >>))
        r3 == ReplaceIfPresent(r2, 11, Alternatives(<< <<42, 31>>, <<2000>> >>))
    IN  Insert(r3, 2000, Alternatives(<< <<42, 11, 31>> >>))

(***************************************************************************)
(* alt_count and the cartesian product of alternative indices.             *)
(***************************************************************************)
alt_count(r, rule_id) ==
    IF r[rule_id].kind = "Char" THEN 1 ELSE Len(r[rule_id].alts)

\* An iterator that yields the first index tuple only.
first_candidate_only(counts) == << [i \in DOMAIN counts |-> 0] >>

RECURSIVE multi_cartesian_product(_)
\* The index tuples of 0..counts[i]-1, the last position cycling fastest.
multi_cartesian_product(counts) ==
    IF Len(counts) = 0 THEN << <<>> >>
    ELSE LET rest == multi_cartesian_product(Tail(counts))
         IN  Flatten([a \in 1..Head(counts) |->
                        [k \in 1..Len(rest) |-> <<a - 1>> \o rest[k]]])

(***************************************************************************)
(* The backtracking recognizer.  A result is                               *)
(*   [is_match, pos, rules_applied, rules_left, panic].                    *)
(***************************************************************************)
RdResult(ok, p, applied, left) ==
    [is_match |-> ok, pos |-> p, rules_applied |-> applied,
     rules_left |-> left, panic |-> FALSE]

RdPanic == [is_match |-> FALSE, pos |-> 0, rules_applied |-> <<>>,
            rules_left |-> <<>>, panic |-> TRUE]

\* while v.len() != n { v.pop(); } : never ends when v is shorter than n.
TruncateTo(v, n) == SubSeq(v, 1, n)

RECURSIVE is_message_valid_using_recursive_descent(_, _, _, _, _, _, _, _)
RECURSIVE MatchElements(_, _, _, _, _, _, _, _, _)
RECURSIVE TryCandidates(_, _, _, _, _, _, _, _, _)

\* The inner loop of check_if_matches_sequence (lines 155-185) from element
\* sequence_pos on, for one candidate tuple of alternative indices.
MatchElements(m, r, sequence, candidate, sequence_pos, current_message_pos, rules_applied, rules_left, active) ==
    IF sequence_pos > Len(sequence)
    THEN RdResult(TRUE, current_message_pos, rules_applied, rules_left)
    ELSE LET res == is_message_valid_using_recursive_descent(
                        m, r, current_message_pos, sequence[sequence_pos],
                        candidate[sequence_pos], rules_applied, rules_left, active)
         IN  IF res.panic THEN RdPanic
             ELSE IF res.is_match
             THEN MatchElements(m, r, sequence, candidate, sequence_pos + 1,
                                res.pos, res.rules_applied, Pop(res.rules_left),
                                active)
             ELSE RdResult(FALSE, current_message_pos, res.rules_applied,
                           res.rules_left)

\* A loop that leaves the stacks as the failed candidate left them.
TryCandidatesWithoutRollback(m, r, sequence, cartesian_iter, k, message_pos, rules_applied, rules_left, active) ==
    IF k > Len(cartesian_iter)
    THEN RdResult(FALSE, message_pos, rules_applied, rules_left)
    ELSE LET res == MatchElements(m, r, sequence, cartesian_iter[k], 1,
                                  message_pos, rules_applied,
                                  rules_left \o Rev(sequence), active)
         IN  IF res.panic THEN RdPanic
             ELSE IF res.is_match THEN res
             ELSE TryCandidates(m, r, sequence, cartesian_iter, k + 1,
                       message_pos, res.rules_applied, res.rules_left, active)

\* A loop that gives the sequence up when its first candidate fails.
TryFirstCandidateOnly(m, r, sequence, cartesian_iter, k, message_pos, rules_applied, rules_left, active) ==
    LET res == MatchElements(m, r, sequence, cartesian_iter[k], 1,
                             message_pos, rules_applied,
                             rules_left \o Rev(sequence), active)
    IN  IF res.panic THEN RdPanic
        ELSE IF res.is_match THEN res
        ELSE RdResult(FALSE, message_pos,
                      TruncateTo(res.rules_applied, Len(rules_applied)),
                      TruncateTo(res.rules_left, Len(rules_left)))

\* The outer loop of check_if_matches_sequence (lines 148-191) from
\* candidate k on.
TryCandidates(m, r, sequence, cartesian_iter, k, message_pos, rules_applied, rules_left, active) ==
    IF k > Len(cartesian_iter)
    THEN RdResult(FALSE, message_pos, rules_applied, rules_left)
    ELSE LET res == MatchElements(m, r, sequence, cartesian_iter[k], 1,
                                  message_pos, rules_applied,
                                  rules_left \o Rev(sequence), active)
         IN  IF res.panic THEN RdPanic
             ELSE IF res.is_match THEN res
             ELSE IF Len(res.rules_applied) < Len(rules_applied)
                     \/ Len(res.rules_left) < Len(rules_left)
             THEN RdPanic
             ELSE TryCandidates(m, r, sequence, cartesian_iter, k + 1,
                       message_pos,
                       TruncateTo(res.rules_applied, Len(rules_applied)),
                       TruncateTo(res.rules_left, Len(rules_left)), active)

check_if_matches_sequence(m, r, sequence, message_pos, rules_applied, rules_left, active) ==
    IF \E i \in DOMAIN sequence : sequence[i] \notin DOMAIN r
    THEN RdPanic
    ELSE TryCandidates(m, r, sequence,
             multi_cartesian_product(
                 [i \in DOMAIN sequence |-> alt_count(r, sequence[i])]),
             1, message_pos, rules_applied, rules_left, active)

\* A recognizer whose terminal rules match without consuming the character.
terminal_not_advancing(m, r, message_pos, rule_id, alternative_to_apply, rules_applied, rules_left, active) ==
    IF rule_id \notin DOMAIN r
       \/ <<message_pos, rule_id, alternative_to_apply>> \in active
    THEN RdPanic
    ELSE IF message_pos >= Len(m)
    THEN RdResult(FALSE, message_pos, rules_applied, rules_left)
    ELSE LET rule == r[rule_id]
             pushed == Append(rules_applied, rule_id)
             res == IF rule.kind = "Char"
                    THEN RdResult(m[message_pos + 1] = rule.ch, message_pos,
                                  pushed, rules_left)
                    ELSE IF alternative_to_apply >= Len(rule.alts)
                    THEN RdPanic
                    ELSE check_if_matches_sequence(m, r,
                             rule.alts[alternative_to_apply + 1], message_pos,
                             pushed, rules_left,
                             active \cup {<<message_pos, rule_id,
                                           alternative_to_apply>>})
         IN  IF res.panic THEN RdPanic
             ELSE IF ~res.is_match
             THEN [res EXCEPT !.rules_applied = Pop(res.rules_applied)]
             ELSE res

\* A recognizer whose terminal rules match whatever character is there.
terminal_matching_any_character(m, r, message_pos, rule_id, alternative_to_apply, rules_applied, rules_left, active) ==
    IF rule_id \notin DOMAIN r
       \/ <<message_pos, rule_id, alternative_to_apply>> \in active
    THEN RdPanic
    ELSE IF message_pos >= Len(m)
    THEN RdResult(FALSE, message_pos, rules_applied, rules_left)
    ELSE LET rule == r[rule_id]
             pushed == Append(rules_applied, rule_id)
             res == IF rule.kind = "Char"
                    THEN RdResult(TRUE, message_pos + 1, pushed, rules_left)
                    ELSE IF alternative_to_apply >= Len(rule.alts)
                    THEN RdPanic
                    ELSE check_if_matches_sequence(m, r,
                             rule.alts[alternative_to_apply + 1], message_pos,
                             pushed, rules_left,
                             active \cup {<<message_pos, rule_id,
                                           alternative_to_apply>>})
         IN  IF res.panic THEN RdPanic
             ELSE IF ~res.is_match
             THEN [res EXCEPT !.rules_applied = Pop(res.rules_applied)]
             ELSE res

is_message_valid_using_recursive_descent(m, r, message_pos, rule_id, alternative_to_apply, rules_applied, rules_left, active) ==
    IF rule_id \notin DOMAIN r
       \/ <<message_pos, rule_id, alternative_to_apply>> \in active
    THEN RdPanic
    ELSE IF message_pos >= Len(m)
    THEN RdResult(FALSE, message_pos, rules_applied, rules_left)
    ELSE LET rule == r[rule_id]
             pushed == Append(rules_applied, rule_id)
             res == IF rule.kind = "Char"
                    THEN IF m[message_pos + 1] = rule.ch
                         THEN RdResult(TRUE, message_pos + 1, pushed, rules_left)
                         ELSE RdResult(FALSE, message_pos, pushed, rules_left)
                    ELSE IF alternative_to_apply >= Len(rule.alts)
                    THEN RdPanic
                    ELSE check_if_matches_sequence(m, r,
                             rule.alts[alternative_to_apply + 1], message_pos,
                             pushed, rules_left,
                             active \cup {<<message_pos, rule_id,
                                           alternative_to_apply>>})
         IN  IF res.panic THEN RdPanic
             ELSE IF ~res.is_match
             THEN [res EXCEPT !.rules_applied = Pop(res.rules_applied)]
             ELSE res

\* Verdicts of the wrappers: "true", "false" or "panic".
Verdict(b) == IF b THEN "true" ELSE "false"

\* A wrapper that does not compare the final position with the length.
wrapper_ignoring_final_position(r, m) ==
    LET res == is_message_valid_using_recursive_descent(
                   m, r, 0, 0, 0, <<>>, <<>>, {})
    IN  IF res.panic THEN "panic" ELSE Verdict(res.is_match)

is_message_valid_using_recursive_descent_wrapper(r, m) ==
    LET res == is_message_valid_using_recursive_descent(
                   m, r, 0, 0, 0, <<>>, <<>>, {})
    IN  IF res.panic THEN "panic"
        ELSE IF ~res.is_match THEN "false"
        ELSE Verdict(res.pos = Len(m))

(***************************************************************************)
(* The suffix-list recognizer.  A result is the Vec of remaining suffixes, *)
(* in the order the code produces them.  A panic unwinds through every     *)
(* caller: the result carries it as the element PanicMark (a missing key)  *)
(* or OverflowMark (the stack is exhausted), which every caller passes on  *)
(* (a text that is a mark yields that mark), so a result that holds a mark *)
(* is a call that never returned.  `active` is the set of                  *)
(* <<text length, rule id>> of the calls on the stack: a call that is      *)
(* already active on the same text recurs without end and exhausts the     *)
(* stack.                                                                  *)
(***************************************************************************)
PanicMark == <<"panic">>

OverflowMark == <<"overflow">>

IsMark(m) == m = PanicMark \/ m = OverflowMark

Panicked(out) == \E i \in DOMAIN out : IsMark(out[i])

Overflowed(out) == \E i \in DOMAIN out : out[i] = OverflowMark

RECURSIVE is_message_valid_using_list_of_suffixes(_, _, _, _)
RECURSIVE FoldSequence(_, _, _, _, _)

\* The calls that end without recursion: empty text (line 265), missing key
\* (line 269), exhausted stack, Rule::Char (lines 271-277).
IsLeafCall(m, r, rule_id, active) ==
    \/ m = <<>>
    \/ IsMark(m)
    \/ rule_id \notin DOMAIN r
    \/ <<Len(m), rule_id>> \in active
    \/ r[rule_id].kind = "Char"

\* A recognizer for which the empty text is its own suffix.
LeafCallOnEmptyText(m, r, rule_id, active) ==
    IF m = <<>> THEN <<m>>
    ELSE IF IsMark(m) THEN <<m>>
    ELSE IF rule_id \notin DOMAIN r THEN <<PanicMark>>
    ELSE IF <<Len(m), rule_id>> \in active THEN <<OverflowMark>>
    ELSE IF Head(m) = r[rule_id].ch THEN <<Tail(m)>> ELSE <<>>

\* A leaf call whose Rule::Char returns the text itself, not its tail.
LeafCallKeepingText(m, r, rule_id, active) ==
    IF m = <<>> THEN <<>>
    ELSE IF IsMark(m) THEN <<m>>
    ELSE IF rule_id \notin DOMAIN r THEN <<PanicMark>>
    ELSE IF <<Len(m), rule_id>> \in active THEN <<OverflowMark>>
    ELSE IF Head(m) = r[rule_id].ch THEN <<m>> ELSE <<>>

LeafCall(m, r, rule_id, active) ==
    IF m = <<>> THEN <<>>
    ELSE IF IsMark(m) THEN <<m>>
    ELSE IF rule_id \notin DOMAIN r THEN <<PanicMark>>
    ELSE IF <<Len(m), rule_id>> \in active THEN <<OverflowMark>>
    ELSE IF Head(m) = r[rule_id].ch THEN <<Tail(m)>> ELSE <<>>

set_of_matched_messages_for_rule_id(messages, r, rule_id, active) ==
    LET out == [i \in DOMAIN messages |->
                  is_message_valid_using_list_of_suffixes(
                      messages[i], r, rule_id, active)]
    IN  IF out = <<>> THEN <<>> ELSE Flatten(out)

\* candidate_sequence.iter().fold(vec![m], ...) of lines 281-285, after the
\* first k rule ids of the sequence.
FoldSequence(k, m, r, candidate_sequence, active) ==
    IF k = 0 THEN <<m>>
    ELSE LET next_messages ==
                 FoldSequence(k - 1, m, r, candidate_sequence, active)
         IN  IF next_messages = <<>> THEN <<>>
             ELSE set_of_matched_messages_for_rule_id(
                      next_messages, r, candidate_sequence[k], active)

\* A recognizer that commits to the first alternative that matches.
suffixes_of_first_matching_alternative(m, r, rule_id, active) ==
    IF IsLeafCall(m, r, rule_id, active) THEN LeafCall(m, r, rule_id, active)
    ELSE LET out == [k \in DOMAIN r[rule_id].alts |->
                       FoldSequence(Len(r[rule_id].alts[k]), m, r,
                                    r[rule_id].alts[k],
                                    active \cup {<<Len(m), rule_id>>})]
             hit == {k \in DOMAIN out : out[k] # <<>>}
         IN  IF hit = {} THEN <<>>
             ELSE out[CHOOSE k \in hit : \A j \in hit : k <= j]

is_message_valid_using_list_of_suffixes(m, r, rule_id, active) ==
    IF IsLeafCall(m, r, rule_id, active) THEN LeafCall(m, r, rule_id, active)
    ELSE LET out == [k \in DOMAIN r[rule_id].alts |->
                       FoldSequence(Len(r[rule_id].alts[k]), m, r,
                                    r[rule_id].alts[k],
                                    active \cup {<<Len(m), rule_id>>})]
         IN  IF out = <<>> THEN <<>> ELSE Flatten(out)

is_message_valid_using_list_of_suffixes_wrapper(r, m) ==
    LET res == is_message_valid_using_list_of_suffixes(m, r, 0, {})
    IN  IF Panicked(res) THEN "panic"
        ELSE Verdict(\E i \in DOMAIN res : Len(res[i]) = 0)

\* The calls of is_message_valid_using_list_of_suffixes that one call makes
\* directly (through set_of_matched_messages_for_rule_id), in order, each as
\* <<text, rule id>>: for every alternative and every position of its
\* sequence, one call per suffix folded so far.
SubCalls(m, r, rule_id, active) ==
    IF IsLeafCall(m, r, rule_id, active) THEN <<>>
    ELSE LET alts == r[rule_id].alts
             inner == active \cup {<<Len(m), rule_id>>}
             at(k, j) ==
                 LET next_messages == FoldSequence(j - 1, m, r, alts[k], inner)
                 IN  IF next_messages = <<>> THEN <<>>
                     ELSE [i \in DOMAIN next_messages |->
                             <<next_messages[i], alts[k][j]>>]
             of(k) == Flatten([j \in DOMAIN alts[k] |-> at(k, j)])
         IN  Flatten([k \in DOMAIN alts |-> of(k)])

RECURSIVE SumSeq(_)
SumSeq(ns) == IF ns = <<>> THEN 0 ELSE Head(ns) + SumSeq(Tail(ns))

RECURSIVE MaxSeq(_)
MaxSeq(ns) ==
    IF ns = <<>> THEN 0
    ELSE LET rest == MaxSeq(Tail(ns))
         IN  IF Head(ns) > rest THEN Head(ns) ELSE rest

RECURSIVE CallCount(_, _, _, _, _)
\* The number of calls for a rule id of T made while one call is evaluated,
\* that call included.
CallCount(T, m, r, rule_id, active) ==
    LET sub == SubCalls(m, r, rule_id, active)
        own == IF rule_id \in T THEN 1 ELSE 0
    IN  IF sub = <<>> THEN own
        ELSE own + SumSeq([i \in DOMAIN sub |->
                 CallCount(T, sub[i][1], r, sub[i][2],
                           active \cup {<<Len(m), rule_id>>})])

RECURSIVE NestingDepth(_, _, _, _, _)
\* The largest number of calls for a rule id of T that are on the stack at
\* the same time while one call is evaluated, that call included.
NestingDepth(T, m, r, rule_id, active) ==
    LET sub == SubCalls(m, r, rule_id, active)
        own == IF rule_id \in T THEN 1 ELSE 0
    IN  IF sub = <<>> THEN own
        ELSE own + MaxSeq([i \in DOMAIN sub |->
                 NestingDepth(T, sub[i][1], r, sub[i][2],
                              active \cup {<<Len(m), rule_id>>})])

(***************************************************************************)
(* Reference semantics of a grammar, independent of the recognizers: the   *)
(* chart of a message m maps each rule id to the set of spans <<i, j>>     *)
(* such that the characters i+1..j of m are derivable from that rule.  It  *)
(* is the least fixed point of the derivation rules, computed bottom-up.   *)
(***************************************************************************)
SpansOf(D, id) == IF id \in DOMAIN D THEN D[id] ELSE {}

Compose(A, B) == {<<p[1], q[2]>> : <<p, q>> \in {pq \in A \X B : pq[1][2] = pq[2][1]}}

RECURSIVE SeqSpans(_, _, _)
\* Spans derivable from the first k rule ids of seq, consecutively.
SeqSpans(D, seq, k) ==
    IF k = 1 THEN SpansOf(D, seq[1])
    ELSE Compose(SeqSpans(D, seq, k - 1), SpansOf(D, seq[k]))

ChartStep(D, g, m) ==
    [id \in DOMAIN g |->
        IF g[id].kind = "Char"
        THEN {<<i - 1, i>> : i \in {k \in 1..Len(m) : m[k] = g[id].ch}}
        ELSE UNION {SeqSpans(D, g[id].alts[k], Len(g[id].alts[k])) :
                    k \in DOMAIN g[id].alts}]

RECURSIVE ChartFrom(_, _, _)
ChartFrom(D, g, m) ==
    LET E == ChartStep(D, g, m) IN IF E = D THEN D ELSE ChartFrom(E, g, m)

Chart(g, m) == ChartFrom([id \in DOMAIN g |-> {}], g, m)

\* The whole message is derivable from rule 0.
Derives(g, m) == 0 \in DOMAIN g /\ <<0, Len(m)>> \in Chart(g, m)[0]

RECURSIVE SumLens(_, _, _)
\* The sum of L over the first k rule ids of seq, 0 when one of them has
\* no length yet.
SumLens(L, seq, k) ==
    IF k = 0 THEN 0
    ELSE LET x == IF seq[k] \in DOMAIN L THEN L[seq[k]] ELSE 0
             rest == SumLens(L, seq, k - 1)
         IN  IF x = 0 \/ (k > 1 /\ rest = 0) THEN 0 ELSE rest + x

ShortestStep(L, g) ==
    [id \in DOMAIN g |->
        IF g[id].kind = "Char" THEN 1
        ELSE LET lens == {SumLens(L, g[id].alts[k], Len(g[id].alts[k])) :
                          k \in DOMAIN g[id].alts} \ {0}
             IN  IF lens = {} THEN 0
                 ELSE CHOOSE x \in lens : \A y \in lens : x <= y]

RECURSIVE ShortestFrom(_, _)
ShortestFrom(L, g) ==
    LET K == ShortestStep(L, g) IN IF K = L THEN L ELSE ShortestFrom(K, g)

\* The length of the shortest string derivable from rule id, 0 when no
\* string is derivable from it.
ShortestLen(g, id) == ShortestFrom([x \in DOMAIN g |-> 0], g)[id]

(***************************************************************************)
(* Shapes of grammars the claims speak about.                              *)
(***************************************************************************)
\* <<id, k>>: rule id has a k-th alternative.
AltPlaces(g) == UNION {{<<id, k>> : k \in DOMAIN g[id].alts} : id \in DOMAIN g}

\* <<a, b>>: rule b occurs in an alternative of rule a.
RefEdges(g) ==
    UNION {{<<p[1], g[p[1]].alts[p[2]][i]>> : i \in DOMAIN g[p[1]].alts[p[2]]} :
           p \in AltPlaces(g)}

\* <<a, b>>: rule b is the first rule of an alternative of rule a.
LeftEdges(g) == {<<p[1], g[p[1]].alts[p[2]][1]>> : p \in AltPlaces(g)}

RECURSIVE ReachVia(_, _)
\* The ids reachable from the set S along one or more edges of E, with S.
ReachVia(E, S) ==
    LET T == S \cup {e[2] : e \in {e \in E : e[1] \in S}}
    IN  IF T = S THEN S ELSE ReachVia(E, T)

Successors(E, id) == {e[2] : e \in {e \in E : e[1] = id}}

\* Rule id can begin a derivation of itself.
LeftRecursive(g, id) == id \in ReachVia(LeftEdges(g), Successors(LeftEdges(g), id))

\* Rule id occurs, directly or transitively, in one of its alternatives.
SelfReferential(g, id) == id \in ReachVia(RefEdges(g), Successors(RefEdges(g), id))

NoLeftRecursion(g) == \A id \in DOMAIN g : ~LeftRecursive(g, id)

NoSelfReference(g) == \A id \in DOMAIN g : ~SelfReferential(g, id)

\* Every rule id referenced in a sequence is a key of the map.
Closed(g) == \A e \in RefEdges(g) : e[2] \in DOMAIN g

(***************************************************************************)
(* parse_rules_and_messages.  The input text is kept as its rule lines and *)
(* its message lines (the two sections around the first blank line).  A    *)
(* line is the sequence of its pieces between ':' characters, a piece is   *)
(* the sequence of its whitespace-separated tokens, a token is a sequence  *)
(* of characters.  A result carries `panic` when an unwrap fails.          *)
(***************************************************************************)
Digits == <<"0", "1", "2", "3", "4", "5", "6", "7", "8", "9">>

IsDigit(c) == \E i \in DOMAIN Digits : Digits[i] = c

DigitValue(c) == (CHOOSE i \in DOMAIN Digits : Digits[i] = c) - 1

RECURSIVE DigitsValue(_)
DigitsValue(ds) ==
    IF ds = <<>> THEN 0
    ELSE 10 * DigitsValue(SubSeq(ds, 1, Len(ds) - 1)) + DigitValue(ds[Len(ds)])

\* str::parse::<usize>: an optional '+', then one or more decimal digits.
parse_usize(tok) ==
    LET ds == IF tok # <<>> /\ tok[1] = "+" THEN Tail(tok) ELSE tok
    IN  IF ds = <<>> \/ \E i \in DOMAIN ds : ~IsDigit(ds[i])
        THEN [ok |-> FALSE, value |-> 0]
        ELSE [ok |-> TRUE, value |-> DigitsValue(ds)]

RECURSIVE split_alternatives(_, _, _, _)
\* split(" | ") of the trimmed body, from token i on: a lone '|' token
\* separates when it is neither the first nor the last token and the space
\* before it has not been used by the separator just before it.
split_alternatives(body, i, current, just_split) ==
    IF i > Len(body) THEN <<current>>
    ELSE IF body[i] = <<"|">> /\ i > 1 /\ i < Len(body) /\ ~just_split
    THEN <<current>> \o split_alternatives(body, i + 1, <<>>, TRUE)
    ELSE split_alternatives(body, i + 1, Append(current, body[i]), FALSE)

\* rule_sequence_collector (lines 87-92).
rule_sequence_collector(sub_str) ==
    IF \E i \in DOMAIN sub_str : ~parse_usize(sub_str[i]).ok
    THEN [ok |-> FALSE, sequence |-> <<>>]
    ELSE [ok |-> TRUE,
          sequence |-> [i \in DOMAIN sub_str |-> parse_usize(sub_str[i]).value]]

RuleLinePanic == [panic |-> TRUE, rule_id |-> 0, rule |-> Char("")]

\* The closure of lines 77-100 on one rule line.
parse_rule_line(l) ==
    IF Len(l[1]) # 1 \/ ~parse_usize(l[1][1]).ok THEN RuleLinePanic
    ELSE IF Len(l) < 2 THEN RuleLinePanic
    ELSE LET rule_id == parse_usize(l[1][1]).value
             alternatives_it == split_alternatives(l[2], 1, <<>>, FALSE)
             alternative_1_str == alternatives_it[1]
             collected == [k \in DOMAIN alternatives_it |->
                             rule_sequence_collector(alternatives_it[k])]
         IN  IF alternative_1_str # <<>> /\ alternative_1_str[1][1] = "\""
             THEN \* chars().nth(1) of the alternative
                  IF Len(alternative_1_str[1]) >= 2
                  THEN [panic |-> FALSE, rule_id |-> rule_id,
                        rule |-> Char(alternative_1_str[1][2])]
                  ELSE IF Len(alternative_1_str) >= 2
                  THEN [panic |-> FALSE, rule_id |-> rule_id, rule |-> Char(" ")]
                  ELSE RuleLinePanic
             ELSE IF \E k \in DOMAIN collected : ~collected[k].ok
             THEN RuleLinePanic
             ELSE [panic |-> FALSE, rule_id |-> rule_id,
                   rule |-> Alternatives(
                       [k \in DOMAIN collected |-> collected[k].sequence])]

EmptyRulesMap == [id \in {} |-> Char("")]

RECURSIVE CollectRules(_, _)
\* collect::<RulesMap>() of the first n parsed lines: a later line with the
\* same id replaces the earlier one.
CollectRules(rule_lines, n) ==
    IF n = 0 THEN EmptyRulesMap
    ELSE LET pr == parse_rule_line(rule_lines[n])
         IN  Insert(CollectRules(rule_lines, n - 1), pr.rule_id, pr.rule)

RECURSIVE trim_end(_)
\* s.trim() at the end of the text: the empty lines that end the input are
\* whitespace and go.
trim_end(ms) ==
    IF ms # <<>> /\ ms[Len(ms)] = <<>> THEN trim_end(Pop(ms)) ELSE ms

\* With nothing left after the rule lines the trimmed text holds no blank
\* line and find(sep).unwrap() panics.
parse_rules_and_messages(s) ==
    IF trim_end(s.messages) = <<>>
       \/ \E i \in DOMAIN s.rule_lines : parse_rule_line(s.rule_lines[i]).panic
    THEN [panic |-> TRUE, rules |-> EmptyRulesMap, messages |-> <<>>]
    ELSE [panic |-> FALSE,
          rules |-> CollectRules(s.rule_lines, Len(s.rule_lines)),
          messages |-> trim_end(s.messages)]

(***************************************************************************)
(* The compiled matcher.  A nom parser takes an input text and returns the *)
(* text that remains, or an error; the parser built for a rule is modelled *)
(* by what it returns.                                                     *)
(***************************************************************************)
NomErr == <<"Err">>

\* What a parser returns: the text that remains, or the error.
NomOutcomes == Seq(STRING)

\* The recursion of build_regular_nom_parser and rule_shortest_matching_len
\* from rule_id follows every reference: it indexes a missing key (lines
\* 346, 365) or never ends when a rule on the way refers to itself.
RecursionAborts(r, rule_id) ==
    LET reach == ReachVia(RefEdges(r), {rule_id})
    IN  \/ ~(reach \subseteq DOMAIN r)
        \/ \E x \in reach : SelfReferential(r, x)

RECURSIVE build_regular_nom_parser(_, _, _)
RECURSIVE build_nom_sequence_parser(_, _, _, _)
RECURSIVE build_nom_alternative_parser(_, _, _, _)

\* recognize(pair(prev_p, next_p)) folded over the sequence (lines 299-304),
\* from element k on: each element parses what the one before left.
build_nom_sequence_parser(r, s, k, i) ==
    IF k > Len(s) THEN i
    ELSE LET next_p[o \in NomOutcomes] ==
                 IF o = NomErr THEN NomErr
                 ELSE build_nom_sequence_parser(r, s, k + 1, o)
         IN  next_p[build_regular_nom_parser(r, s[k], i)]

\* alt((prev_alternative, next_alternative)) folded over the alternatives
\* (lines 306-313, 353-359), from alternative k on: the first alternative
\* that parses decides.
build_nom_alternative_parser(r, alternatives, k, i) ==
    IF k > Len(alternatives) THEN NomErr
    ELSE LET next_alternative[o \in NomOutcomes] ==
                 IF o # NomErr THEN o
                 ELSE build_nom_alternative_parser(r, alternatives, k + 1, i)
         IN  next_alternative[build_nom_sequence_parser(r, alternatives[k], 1, i)]

build_regular_nom_parser(r, rule_id, i) ==
    IF r[rule_id].kind = "Char"
    THEN IF i # <<>> /\ Head(i) = r[rule_id].ch THEN Tail(i) ELSE NomErr
    ELSE build_nom_alternative_parser(r, r[rule_id].alts, 1, i)

RECURSIVE nom_count(_, _, _, _)
\* nom::multi::count: the parser of rule_id, repeat_count times.
nom_count(r, rule_id, repeat_count, i) ==
    IF repeat_count = 0 THEN i
    ELSE LET again[o \in NomOutcomes] ==
                 IF o = NomErr THEN NomErr
                 ELSE nom_count(r, rule_id, repeat_count - 1, o)
         IN  again[build_regular_nom_parser(r, rule_id, i)]

build_nom_parser_8(r, repeat_count, i) == nom_count(r, 42, repeat_count, i)

build_nom_parser_11(r, repeat_count, i) ==
    LET p_31[o \in NomOutcomes] ==
            IF o = NomErr THEN NomErr ELSE nom_count(r, 31, repeat_count, o)
    IN  p_31[nom_count(r, 42, repeat_count, i)]

\* Lines 417-427: p_8 then p_11 on what p_8 left, true when nothing is left.
ParsesWithCounts(r, m, p_8_count, p_11_count) ==
    LET and_then[o \in NomOutcomes] ==
            o # NomErr /\ build_nom_parser_11(r, p_11_count, o) = <<>>
    IN  and_then[build_nom_parser_8(r, p_8_count, m)]

RECURSIVE KeepFirst(_)
\* The sequence without the later occurrences of its elements.
KeepFirst(ids) ==
    IF ids = <<>> THEN <<>>
    ELSE LET rest == KeepFirst(Pop(ids))
         IN  IF ids[Len(ids)] \in Range(rest) THEN rest
             ELSE Append(rest, ids[Len(ids)])

RECURSIVE constructions(_, _)
RECURSIVE constructions_shared(_, _)
\* A builder that constructs the parser of a rule id once and shares it.
constructions_shared(r, rule_id) ==
    IF r[rule_id].kind = "Char" THEN <<rule_id>>
    ELSE KeepFirst(<<rule_id>> \o
         Flatten([k \in DOMAIN r[rule_id].alts |->
            Flatten([j \in DOMAIN r[rule_id].alts[k] |->
               constructions_shared(r, r[rule_id].alts[k][j])])]))

\* The rule ids whose parser build_regular_nom_parser constructs, in order,
\* when it is called for rule_id: its own, then those of every rule id of
\* every sequence (line 301), each built by a call of its own.
constructions(r, rule_id) ==
    IF r[rule_id].kind = "Char" THEN <<rule_id>>
    ELSE <<rule_id>> \o
         Flatten([k \in DOMAIN r[rule_id].alts |->
            Flatten([j \in DOMAIN r[rule_id].alts[k] |->
               constructions(r, r[rule_id].alts[k][j])])])

RECURSIVE rule_shortest_matching_len(_, _)
\* A length that counts no character.
rule_len_of_nothing(r, rule_id) == 0

\* Lines 364-381: fold1 keeps the larger of two alternatives.
rule_shortest_matching_len(r, rule_id) ==
    IF r[rule_id].kind = "Char" THEN 1
    ELSE MaxSeq([k \in DOMAIN r[rule_id].alts |->
            SumSeq([j \in DOMAIN r[rule_id].alts[k] |->
               rule_shortest_matching_len(r, r[rule_id].alts[k][j])])])

(***************************************************************************)
(* Inputs.  An input is what parse_rules_and_messages returns: a rule map  *)
(* and a list of messages.  The rule maps are those of the input format:   *)
(* every alternative is a non-empty sequence of rule ids.                  *)
(***************************************************************************)
Alphabet == {"a", "b"}

\* Longest message of the general inputs.
MaxMsgLen == 3

\* Longest message of the inputs whose root is `0: 8 11`.
MaxLoopMsgLen == 4

Msgs(n) == UNION {[1..k -> Alphabet] : k \in 0..n}

\* One or two alternatives drawn from a set of sequences.
AltsOver(S) == {<<s>> : s \in S} \cup {<<s, t>> : s \in S, t \in S}

SeqsOver(ids) == {<<i>> : i \in ids} \cup {<<i, j>> : i \in ids, j \in ids}

\* Rule 1 of a general grammar: a character, alternatives over rule 2, a
\* right-recursive rule, or a left-recursive one.
RuleOneBodies ==
    {Char("a"), Char("b"),
     Alternatives(<< <<2>> >>),
     Alternatives(<< <<2>>, <<2, 2>> >>),
     Alternatives(<< <<2, 2>>, <<2>> >>),
     Alternatives(<< <<2>>, <<2, 1>> >>),
     Alternatives(<< <<2, 1>>, <<2>> >>),
     Alternatives(<< <<1, 2>>, <<2>> >>),
     Alternatives(<< <<2>>, <<1, 2>> >>)}

GeneralGrammars ==
    {[id \in {0, 1, 2} |->
        CASE id = 0 -> Alternatives(a0)
          [] id = 1 -> r1
          [] id = 2 -> Char("b")] :
     a0 \in AltsOver(SeqsOver({1, 2})), r1 \in RuleOneBodies}

\* Rules 42 and 31 of a loop grammar, over the characters 1: "a", 14: "b".
LoopBodies ==
    {Alternatives(<< <<1>> >>), Alternatives(<< <<14>> >>),
     Alternatives(<< <<1>>, <<14>> >>), Alternatives(<< <<1, 14>> >>),
     Alternatives(<< <<1>>, <<1, 14>> >>), Alternatives(<< <<1, 14>>, <<1>> >>)}

LoopGrammar(r42, r31) ==
    [id \in {0, 1, 8, 11, 14, 31, 42} |->
        CASE id = 0 -> Alternatives(<< <<8, 11>> >>)
          [] id = 1 -> Char("a")
          [] id = 8 -> Alternatives(<< <<42>> >>)
          [] id = 11 -> Alternatives(<< <<42, 31>> >>)
          [] id = 14 -> Char("b")
          [] id = 31 -> r31
          [] id = 42 -> r42]

LoopGrammars == {LoopGrammar(r42, r31) : r42 \in LoopBodies, r31 \in LoopBodies}

\* Inputs that themselves define rule 1000 or 2000; the last one is a map
\* that add_loop_to_rules has already rewritten.
HelperIdGrammars ==
    LET base == LoopGrammar(Alternatives(<< <<1>> >>), Alternatives(<< <<14>> >>))
    IN  {Insert(base, 1000, Char("b")),
         add_loop_to_rules(base),
         Insert(base, 2000, Alternatives(<< <<14>> >>)),
         Insert(Insert(base, 0, Alternatives(<< <<8, 11>>, <<1000>> >>)),
                1000, Alternatives(<< <<14>> >>)),
         Insert(Insert(base, 0, Alternatives(<< <<8, 11>>, <<2000>> >>)),
                2000, Alternatives(<< <<14, 14>> >>))}

\* The input of test_p1 (lines 551-566).
TestP1Rule(id) ==
    CASE id = 0 -> Alternatives(<< <<4, 1, 5>> >>)
      [] id = 1 -> Alternatives(<< <<2, 3>>, <<3, 2>> >>)
      [] id = 2 -> Alternatives(<< <<4, 4>>, <<5, 5>> >>)
      [] id = 3 -> Alternatives(<< <<4, 5>>, <<5, 4>> >>)
      [] id = 4 -> Char("a")
      [] id = 5 -> Char("b")

TestP1Rules == [id \in {0, 1, 2, 3, 4, 5} |-> TestP1Rule(id)]

TestP1Messages ==
    << <<"a", "b", "a", "b", "b", "b">>,
       <<"b", "a", "b", "a", "b", "a">>,
       <<"a", "b", "b", "b", "a", "b">>,
       <<"a", "a", "a", "b", "b", "b">>,
       <<"a", "a", "a", "a", "b", "b", "b">> >>

\* The rules of the second input of test_p1 (lines 568-576); the messages
\* are "ab" of that test, then "ba", "a" and "abb".
SimpleRules ==
    [id \in {0, 1, 2} |->
        CASE id = 0 -> Alternatives(<< <<1, 2>> >>)
          [] id = 1 -> Char("a")
          [] id = 2 -> Char("b")]

SimpleMessages == << <<"a", "b">>, <<"b", "a">>, <<"a">>, <<"a", "b", "b">> >>

Input(g, ms) == [rules |-> g, messages |-> ms]

\* Longest message of the inputs with two messages and of the inputs with
\* odd rule lines.
MaxPairMsgLen == 2

\* Grammars over 1: "a", 2: "b" whose root may refer to rule 3, which is
\* not defined.
PairGrammars ==
    {[id \in {0, 1, 2} |->
        CASE id = 0 -> Alternatives(a0)
          [] id = 1 -> Char("a")
          [] id = 2 -> Char("b")] :
     a0 \in AltsOver({<<1>>, <<2, 1>>, <<3>>, <<1, 3>>})}

\* Grammars whose root sequence ends with 3: "a" after a rule that matches
\* "b" or "bb", directly (rule 1) or through rule 4.
BacktrackGrammars ==
    {[id \in {0, 1, 2, 3, 4} |->
        CASE id = 0 -> Alternatives(<<s0>>)
          [] id = 1 -> Alternatives(a1)
          [] id = 2 -> Char("b")
          [] id = 3 -> Char("a")
          [] id = 4 -> Alternatives(<< <<1>> >>)] :
     s0 \in {<<1, 3>>, <<4, 3>>, <<1, 1, 3>>},
     a1 \in {<< <<2>>, <<2, 2>> >>, << <<2, 2>>, <<2>> >>}}

\* The second message of the inputs with two messages.
SecondMessages == {<<"a">>, <<"b">>, <<"a", "b">>, <<"b", "a">>}

Inputs ==
    {Input(g, <<m>>) : g \in GeneralGrammars \cup BacktrackGrammars,
                       m \in Msgs(MaxMsgLen)}
    \cup {Input(g, <<m>>) : g \in LoopGrammars \cup HelperIdGrammars,
                            m \in Msgs(MaxLoopMsgLen)}
    \cup {Input(g, <<m1, m2>>) : g \in PairGrammars,
                                 m1 \in Msgs(MaxPairMsgLen),
                                 m2 \in SecondMessages}
    \cup {Input(TestP1Rules, TestP1Messages),
          Input(SimpleRules, SimpleMessages)}

(***************************************************************************)
(* Input texts.  The text of an input with rule map g has one line per     *)
(* rule, `id: body`; the other texts hold an odd rule line.                *)
(***************************************************************************)
RECURSIVE ShowUsize(_)
\* The decimal digits of n.
ShowUsize(n) ==
    IF n < 10 THEN <<Digits[n + 1]>>
    ELSE Append(ShowUsize(n \div 10), Digits[(n % 10) + 1])

Quoted(cs) == <<"\"">> \o cs \o <<"\"">>

RECURSIVE ShowAlternatives(_, _)
\* The tokens of the alternatives k.. of a rule, separated by '|'.
ShowAlternatives(alts, k) ==
    LET ids == [i \in DOMAIN alts[k] |-> ShowUsize(alts[k][i])]
    IN  IF k = Len(alts) THEN ids
        ELSE ids \o << <<"|">> >> \o ShowAlternatives(alts, k + 1)

RuleLine(id, rule) ==
    << <<ShowUsize(id)>>,
       IF rule.kind = "Char" THEN <<Quoted(<<rule.ch>>)>>
       ELSE ShowAlternatives(rule.alts, 1) >>

RECURSIVE RuleLines(_, _)
\* The lines of the rules of g with ids in S, in ascending order of id.
RuleLines(g, S) ==
    IF S = {} THEN <<>>
    ELSE LET id == CHOOSE x \in S : \A y \in S : x <= y
         IN  <<RuleLine(id, g[id])>> \o RuleLines(g, S \ {id})

Text(ls, ms) == [rule_lines |-> ls, messages |-> ms]

\* Rule lines that repeat an id, have no ':', or hold an odd token.
OddRuleLines ==
    {RuleLine(1, Char("b")),
     RuleLine(0, Alternatives(<< <<2, 1>> >>)),
     << <<ShowUsize(1), Quoted(<<"a">>)>> >>,
     << <<ShowUsize(7)>> >>,
     << <<ShowUsize(1)>>, <<ShowUsize(2), <<"x">>>> >>,
     << <<ShowUsize(1)>>, <<Quoted(<<"a", "b">>)>> >>,
     << <<ShowUsize(1)>>, <<Quoted(<<"a">>), <<"x">>>> >>,
     << <<ShowUsize(1)>>, <<Quoted(<<"a">>), <<"|">>, <<"x">>>> >>,
     << <<ShowUsize(1)>>, <<ShowUsize(2), <<"|">>, Quoted(<<"a">>)>> >>,
     << <<ShowUsize(1)>>, <<ShowUsize(2), <<"|">>, <<"|">>, ShowUsize(2)>> >>,
     << <<ShowUsize(1)>>, << <<"\"">> >> >>,
     << <<<<"x">>>>, <<ShowUsize(2)>> >>}

\* The lines of {0: 1 2, 1: "a", 2: "b"} with an odd line in place of the
\* line of rule 1, after the last line, or before the first.
OddTexts ==
    LET base == RuleLines(SimpleRules, DOMAIN SimpleRules)
    IN  {Text(ls, <<m>>) :
            ls \in UNION {{<<base[1], odd, base[3]>>,
                           Append(base, odd),
                           <<odd>> \o base} : odd \in OddRuleLines},
            m \in Msgs(MaxPairMsgLen)}

Texts ==
    {Text(RuleLines(in.rules, DOMAIN in.rules), in.messages) : in \in Inputs}
    \cup OddTexts

(***************************************************************************)
(* The drivers.  part = "p1" is count_valid_messages, part = "p2" is       *)
(* count_valid_messages_p2.  parsed keeps the rule map as parsed; rules is *)
(* the map the driver owns (p2 rewrites it in place); verdicts are the     *)
(* values the map closure has produced so far and count is the iterator's  *)
(* running count of the true ones.                                         *)
(***************************************************************************)
VARIABLES input, part, parsed, rules, messages, pc, verdicts, count,
          nom_map, built, p_8_repeat_count, p_11_repeat_count

\* nom_map is the NomParserMap of line 499: for each key, the place in built
\* of the parser it holds.  built lists, in order, the rule ids of the
\* parsers build_regular_nom_parser has constructed.  The repeat counts are
\* the loop variables of is_message_valid_using_nom.
nomvars == <<nom_map, built, p_8_repeat_count, p_11_repeat_count>>

vars == <<input, part, parsed, rules, messages, pc, verdicts, count,
          nom_map, built, p_8_repeat_count, p_11_repeat_count>>

Init ==
    /\ part \in {"p1", "p2"}
    /\ input \in Texts
    /\ parsed = EmptyRulesMap
    /\ rules = EmptyRulesMap
    /\ messages = <<>>
    /\ pc = "parse"
    /\ verdicts = <<>>
    /\ count = 0
    /\ nom_map = <<>>
    /\ built = <<>>
    /\ p_8_repeat_count = 0
    /\ p_11_repeat_count = 0

\* Lines 485 and 494: let (rules, messages) = parse_rules_and_messages(s).
Parse ==
    /\ pc = "parse"
    /\ LET res == parse_rules_and_messages(input)
       IN  IF res.panic
           THEN /\ pc' = "parse_failed"
                /\ UNCHANGED <<parsed, rules, messages>>
           ELSE /\ parsed' = res.rules
                /\ rules' = res.rules
                /\ messages' = res.messages
                /\ pc' = IF part = "p1" THEN "count" ELSE "loop"
    /\ UNCHANGED <<input, part, verdicts, count>>
    /\ UNCHANGED nomvars

\* Line 495: add_loop_to_rules(&mut rules).
AddLoop ==
    /\ pc = "loop"
    /\ rules' = add_loop_to_rules(rules)
    /\ pc' = "prepare"
    /\ UNCHANGED <<input, part, parsed, messages, verdicts, count>>
    /\ UNCHANGED nomvars

\* Lines 499-500: prepare_part2_sub_parsers(&rules, &mut nom_map) on an empty
\* map.  The parser of 31 is built and inserted, then the parser of 42.
Prepare ==
    /\ pc = "prepare"
    /\ IF 31 \notin DOMAIN rules \/ 42 \notin DOMAIN rules
       THEN /\ pc' = "count"
            /\ UNCHANGED <<nom_map, built>>
       ELSE IF RecursionAborts(rules, 31) \/ RecursionAborts(rules, 42)
       THEN /\ pc' = "panic"
            /\ UNCHANGED <<nom_map, built>>
       ELSE /\ built' = constructions(rules, 31) \o constructions(rules, 42)
            /\ nom_map' = [id \in {31, 42} |->
                              IF id = 31 THEN 1
                              ELSE Len(constructions(rules, 31)) + 1]
            /\ pc' = "count"
    /\ UNCHANGED <<input, part, parsed, rules, messages, verdicts, count>>
    /\ UNCHANGED <<p_8_repeat_count, p_11_repeat_count>>

\* One element of the iterator chain map/filter/count (lines 486-490,
\* 503-512): the verdict of the next message is counted when it is true; a
\* panic ends the program.
\* The verdict of the message before sticks to the next one, as it would if
\* the recognizer kept its state from one message to the next.
RecordCarryingState(v) ==
    IF v = "panic"
    THEN /\ pc' = "panic"
         /\ UNCHANGED <<verdicts, count>>
    ELSE LET carried == v = "true" \/
                        (verdicts # <<>> /\ verdicts[Len(verdicts)])
         IN  /\ verdicts' = Append(verdicts, carried)
             /\ count' = IF carried THEN count + 1 ELSE count
             /\ pc' = pc

Record(v) ==
    IF v = "panic"
    THEN /\ pc' = "panic"
         /\ UNCHANGED <<verdicts, count>>
    ELSE /\ verdicts' = Append(verdicts, v = "true")
         /\ count' = IF v = "true" THEN count + 1 ELSE count
         /\ pc' = pc

EvalP1 ==
    /\ part = "p1"
    /\ pc = "count"
    /\ Len(verdicts) < Len(messages)
    /\ Record(is_message_valid_using_recursive_descent_wrapper(
                  rules, messages[Len(verdicts) + 1]))
    /\ UNCHANGED <<input, part, parsed, rules, messages>>
    /\ UNCHANGED nomvars

EvalP2 ==
    /\ part = "p2"
    /\ pc = "count"
    /\ Len(verdicts) < Len(messages)
    /\ Record(is_message_valid_using_list_of_suffixes_wrapper(
                  rules, messages[Len(verdicts) + 1]))
    /\ UNCHANGED <<input, part, parsed, rules, messages>>
    /\ UNCHANGED nomvars

\* The iterator is exhausted: count() returns.
Return ==
    /\ pc = "count"
    /\ Len(verdicts) = Len(messages)
    /\ pc' = "done"
    /\ UNCHANGED <<input, part, parsed, rules, messages, verdicts, count>>
    /\ UNCHANGED nomvars

Next == Parse \/ AddLoop \/ Prepare \/ EvalP1 \/ EvalP2 \/ Return

Spec == Init /\ [][Next]_vars

(***************************************************************************)
(* The driver with the compiled matcher: count_valid_messages_p2 with line *)
(* 506 in place of line 507, part = "nom".  One call of                    *)
(* is_message_valid_using_nom is the steps NomEnter, NomOuter, NomInner.   *)
(***************************************************************************)
\* Largest repeat count the loops are followed to.
MaxRepeatCount == 6

\* Grammars whose rules 31 and 42 are missing, or never finish building.
NomOddGrammars ==
    {SimpleRules,
     LoopGrammar(Alternatives(<< <<1>>, <<1, 42>> >>), Alternatives(<< <<14>> >>))}

NomTexts ==
    {Text(RuleLines(g, DOMAIN g), <<m>>) :
        g \in LoopGrammars \cup HelperIdGrammars, m \in Msgs(MaxLoopMsgLen)}
    \cup {Text(RuleLines(g, DOMAIN g), <<m>>) :
        g \in NomOddGrammars, m \in Msgs(1)}

NomInit ==
    /\ part = "nom"
    /\ input \in NomTexts
    /\ parsed = EmptyRulesMap
    /\ rules = EmptyRulesMap
    /\ messages = <<>>
    /\ pc = "parse"
    /\ verdicts = <<>>
    /\ count = 0
    /\ nom_map = <<>>
    /\ built = <<>>
    /\ p_8_repeat_count = 0
    /\ p_11_repeat_count = 0

\* Lines 399-400.
p31_shortest_len == rule_shortest_matching_len(rules, 31)
p42_shortest_len == rule_shortest_matching_len(rules, 42)
\* Lines 403-405 and 411.
p8_shortest_len == p_8_repeat_count * p42_shortest_len
p11_one_shortest_len == p42_shortest_len + p31_shortest_len
p11_shortest_len == p_11_repeat_count * p11_one_shortest_len

\* The message the map closure is working on.
m_now == messages[Len(verdicts) + 1]

\* The closure's value v goes through filter and count (lines 509-512).
NomReturn(v) ==
    /\ verdicts' = Append(verdicts, v)
    /\ count' = IF v THEN count + 1 ELSE count
    /\ pc' = "count"

\* Lines 399-402: the two lengths are computed (r[&rule_id] panics on a
\* missing rule) and the outer loop starts at 1.
NomEnter ==
    /\ part = "nom"
    /\ pc = "count"
    /\ Len(verdicts) < Len(messages)
    /\ IF RecursionAborts(rules, 31) \/ RecursionAborts(rules, 42)
       THEN /\ pc' = "panic"
            /\ UNCHANGED p_8_repeat_count
       ELSE /\ pc' = "outer"
            /\ p_8_repeat_count' = 1
    /\ UNCHANGED <<input, part, parsed, rules, messages, verdicts, count>>
    /\ UNCHANGED <<nom_map, built, p_11_repeat_count>>

\* Lines 402-410: the head of one round of the outer loop.  The break leads
\* to the false of line 433.
NomOuter ==
    /\ pc = "outer"
    /\ IF p8_shortest_len + p11_one_shortest_len > Len(m_now)
       THEN /\ NomReturn(FALSE)
            /\ UNCHANGED p_11_repeat_count
       ELSE /\ pc' = "inner"
            /\ p_11_repeat_count' = 1
            /\ UNCHANGED <<verdicts, count>>
    /\ UNCHANGED <<input, part, parsed, rules, messages>>
    /\ UNCHANGED <<nom_map, built, p_8_repeat_count>>

\* Lines 410-431: one round of the inner loop.  p_8 and p_11 are made of
\* clones of the parsers nom_map holds (lines 320, 333-334).
NomInner ==
    /\ pc = "inner"
    /\ IF p8_shortest_len + p11_shortest_len > Len(m_now)
       THEN /\ p_8_repeat_count < MaxRepeatCount
            /\ p_8_repeat_count' = p_8_repeat_count + 1
            /\ pc' = "outer"
            /\ UNCHANGED <<verdicts, count, p_11_repeat_count>>
       ELSE IF {31, 42} \subseteq DOMAIN nom_map
               /\ ParsesWithCounts(rules, m_now,
                                   p_8_repeat_count, p_11_repeat_count)
       THEN /\ NomReturn(TRUE)
            /\ UNCHANGED <<p_8_repeat_count, p_11_repeat_count>>
       ELSE /\ p_11_repeat_count < MaxRepeatCount
            /\ p_11_repeat_count' = p_11_repeat_count + 1
            /\ UNCHANGED <<verdicts, count, pc, p_8_repeat_count>>
    /\ UNCHANGED <<input, part, parsed, rules, messages>>
    /\ UNCHANGED <<nom_map, built>>

NomNext ==
    Parse \/ AddLoop \/ Prepare \/ NomEnter \/ NomOuter \/ NomInner \/ Return

NomSpec == NomInit /\ [][NomNext]_vars

\* The same driver from the call of prepare_part2_sub_parsers on: the text
\* has been parsed and the rules rewritten (lines 494-495).
NomLiveInit ==
    \E t \in NomTexts :
       LET res == parse_rules_and_messages(t)
       IN  /\ ~res.panic
           /\ part = "nom"
           /\ input = t
           /\ parsed = res.rules
           /\ rules = add_loop_to_rules(res.rules)
           /\ messages = res.messages
           /\ pc = "prepare"
           /\ verdicts = <<>>
           /\ count = 0
           /\ nom_map = <<>>
           /\ built = <<>>
           /\ p_8_repeat_count = 0
           /\ p_11_repeat_count = 0

NomLiveNext == Prepare \/ NomEnter \/ NomOuter \/ NomInner \/ Return

\* A loop round that can be taken is taken: the call runs on.
NomLive ==
    NomLiveInit /\ [][NomLiveNext]_vars /\ WF_vars(NomOuter) /\ WF_vars(NomInner)

(***************************************************************************)
(* Properties.                                                             *)
(***************************************************************************)
\* The text that remains after the first i characters of m.
Suffix(m, i) == SubSeq(m, i + 1, Len(m))

\* Every rule id that a derivation from id can reach is a key of the map.
Defined(g, id) == ReachVia(RefEdges(g), {id}) \subseteq DOMAIN g

\* The grammar in which rule 8 is `42 | 42 8` and rule 11 is
\* `42 31 | 42 11 31`, every other rule as in g.
DirectLoop(g) ==
    ReplaceIfPresent(
        ReplaceIfPresent(g, 8, Alternatives(<< <<42>>, <<42, 8>> >>)),
        11, Alternatives(<< <<42, 31>>, <<42, 11, 31>> >>))

\* The driver has not yet evaluated a message of its input.
BeforeFirstMessage == pc = "count" /\ verdicts = <<>>

\* count_valid_messages_p2 has called add_loop_to_rules.
Rewritten == part = "p2" /\ pc \in {"count", "done", "panic"}

C2_RecognizersAgree ==
    (part = "p1" /\ NoSelfReference(rules) /\ Closed(rules)) =>
       \A k \in DOMAIN verdicts :
          is_message_valid_using_list_of_suffixes_wrapper(rules, messages[k])
          = Verdict(verdicts[k])

C4_CountsDirectLoopLanguage ==
    (part = "p2" /\ pc = "done") =>
       count = Cardinality({k \in DOMAIN messages :
                               Derives(DirectLoop(parsed), messages[k])})

\* C5: on the grammar and the five messages of test_p1,
\* count_valid_messages does not panic, its verdicts are those of ababbb
\* and abbbab only, and it returns 2.
C5_TestP1Count ==
    (part = "p1" /\ parsed = TestP1Rules /\ messages = TestP1Messages) =>
       /\ pc # "panic"
       /\ \A k \in DOMAIN verdicts : verdicts[k] = (k \in {1, 3})
       /\ pc = "done" => count = 2

\* C5 witness: count_valid_messages has returned 2 on the input of test_p1.
C5_Witness ==
    /\ part = "p1" /\ parsed = TestP1Rules /\ messages = TestP1Messages
    /\ pc = "done" /\ count = 2 /\ Len(verdicts) = 5

\* C6: a message is accepted by the backtracking wrapper only when the match
\* of rule 0 from position 0 ends exactly at the message length; a match
\* that leaves trailing characters and a message that ends early are
\* rejected; on {0: 1 2, 1: "a", 2: "b"}, "ab" is accepted and "ba", "a"
\* and "abb" are rejected.
C6_AcceptedOnlyAtFullLength ==
    part = "p1" =>
       /\ \A k \in DOMAIN verdicts :
             LET res == is_message_valid_using_recursive_descent(
                            messages[k], rules, 0, 0, 0, <<>>, <<>>, {})
             IN  /\ verdicts[k] => (res.is_match /\ res.pos = Len(messages[k]))
                 /\ (res.is_match /\ res.pos < Len(messages[k])) => ~verdicts[k]
                 /\ ~res.is_match => ~verdicts[k]
       /\ (parsed = SimpleRules /\ messages = SimpleMessages) =>
             /\ pc # "panic"
             /\ \A k \in DOMAIN verdicts : verdicts[k] = (k = 1)

\* C6 witness: count_valid_messages has finished on {0: 1 2, 1: "a",
\* 2: "b"} with "ab" accepted and "ba", "a" and "abb" (whose match leaves a
\* trailing character) rejected.
C6_Witness ==
    /\ part = "p1" /\ parsed = SimpleRules /\ messages = SimpleMessages
    /\ pc = "done" /\ verdicts = <<TRUE, FALSE, FALSE, FALSE>>
    /\ LET res == is_message_valid_using_recursive_descent(
                      messages[4], rules, 0, 0, 0, <<>>, <<>>, {})
       IN  res.is_match /\ res.pos < Len(messages[4])

\* C7 (as stated): after add_loop_to_rules has run, the map that was passed
\* in equals what it was before the call.
C7_PassedMapUnchanged ==
    Rewritten => rules = parsed

\* C7 (amended): add_loop_to_rules rewrites the map it is given in place:
\* after the call that map holds rule 1000 = `42 8` and rule 2000 =
\* `42 11 31`, rule 8 = `42 | 1000` and rule 11 = `42 31 | 2000` when the
\* input defined them, has no other new key, and differs from the map as
\* parsed unless that map already had this form.
C7_PassedMapRewrittenInPlace ==
    Rewritten =>
       /\ DOMAIN rules = DOMAIN parsed \cup {1000, 2000}
       /\ rules[1000] = Alternatives(<< <<42, 8>> >>)
       /\ rules[2000] = Alternatives(<< <<42, 11, 31>> >>)
       /\ 8 \in DOMAIN parsed => rules[8] = Alternatives(<< <<42>>, <<1000>> >>)
       /\ 11 \in DOMAIN parsed =>
             rules[11] = Alternatives(<< <<42, 31>>, <<2000>> >>)
       /\ rules = parsed <=>
             /\ {1000, 2000} \subseteq DOMAIN parsed
             /\ \A id \in {8, 11, 1000, 2000} \cap DOMAIN parsed :
                   parsed[id] = rules[id]

\* C7 witness: add_loop_to_rules has run on a map that defines rules 8 and
\* 11 and the map differs from the map as parsed.
C7_Witness ==
    /\ part = "p2" /\ pc = "count"
    /\ {8, 11} \subseteq DOMAIN parsed
    /\ rules # parsed

\* C8 (as stated): every rule id other than 8 and 11 that the input defines
\* has the same definition after add_loop_to_rules.
C8_OtherRulesPreserved ==
    Rewritten =>
       \A id \in DOMAIN parsed \ {8, 11} :
          id \in DOMAIN rules /\ rules[id] = parsed[id]

\* C9 (as stated): the map produced by add_loop_to_rules accepts from rule 0
\* exactly the messages that the grammar with rule 8 = `42 | 42 8` and rule
\* 11 = `42 31 | 42 11 31` accepts.
C9_SameLanguageAsDirectLoop ==
    (part = "p2" /\ BeforeFirstMessage) =>
       \A k \in DOMAIN messages :
          Derives(rules, messages[k]) = Derives(DirectLoop(parsed), messages[k])

\* C10: applying add_loop_to_rules to the map it has already rewritten
\* yields that same map.
C10_RewritingIsIdempotent ==
    Rewritten => add_loop_to_rules(rules) = rules

\* C10 witness: add_loop_to_rules has rewritten rules 8 and 11 of a map, and
\* the driver has moved on.
C10_Witness ==
    /\ part = "p2" /\ pc = "done"
    /\ {8, 11} \subseteq DOMAIN parsed
    /\ rules[8] # parsed[8] /\ rules[11] # parsed[11]


\* C11 (as stated): when every rule id referenced in the grammar as parsed
\* is a key of it, every rule id referenced in the map that add_loop_to_rules
\* has rewritten (rules 1000 and 2000 included) is a key of that map.
C11_ClosurePreserved ==
    (Rewritten /\ Closed(parsed)) => Closed(rules)

\* C12 (as stated): a grammar in which a sequence references a rule id that
\* is not a key is detected before any message is evaluated: no verdict is
\* produced for it, the count is not returned, and no panic occurs while a
\* message is being matched.
C12_DanglingIdDetectedBeforeMatching ==
    ~Closed(parsed) => (verdicts = <<>> /\ pc \notin {"panic", "done"})

\* C13 (as stated): for every grammar the parser accepts and every message,
\* the recognizer of the running part returns true or false; the evaluation
\* of a message never aborts.
C13_EveryMessageGetsAVerdict ==
    pc # "panic"

\* The rule id of a rule line, or -1 when its first piece is not one integer.
LineId(l) ==
    IF Len(l[1]) = 1 /\ parse_usize(l[1][1]).ok
    THEN parse_usize(l[1][1]).value
    ELSE -1

\* Two rule lines of the text define the same rule id.
HasDuplicateId(ls) ==
    \E i \in DOMAIN ls : \E j \in DOMAIN ls :
       i < j /\ LineId(ls[i]) # -1 /\ LineId(ls[i]) = LineId(ls[j])

\* C14 (as stated): when two rule lines define the same rule id, parsing
\* fails: the program never gets past parse_rules_and_messages.
C14_DuplicateIdRejected ==
    HasDuplicateId(input.rule_lines) => pc \in {"parse", "parse_failed"}

\* A token that is neither an integer, nor a quoted single character, nor
\* the separator of alternatives.
OddToken(tok) ==
    /\ ~parse_usize(tok).ok
    /\ ~(Len(tok) = 3 /\ tok[1] = "\"" /\ tok[3] = "\"")
    /\ tok # <<"|">>

\* A rule line without ':' or with an odd token in its body.
MalformedLine(l) ==
    Len(l) < 2 \/ \E i \in DOMAIN l[2] : OddToken(l[2][i])

\* C15 (as stated): when a rule line has no ':' or its body holds a token
\* that is neither an integer nor a quoted single character, parsing fails
\* and no message is evaluated.
C15_MalformedLineRejected ==
    (\E i \in DOMAIN input.rule_lines : MalformedLine(input.rule_lines[i])) =>
       (pc \in {"parse", "parse_failed"} /\ verdicts = <<>>)

\* C16: on a grammar without left recursion (the rewritten loop grammars,
\* where rules 8 and 11 refer to themselves through 1000 and 2000, are
\* such grammars) is_message_valid_using_list_of_suffixes never calls
\* itself again for a rule on a text it is already evaluating that rule on,
\* for any rule id and any message: the recursion ends without a depth cap.
C16_SuffixRecognizerTerminates ==
    (BeforeFirstMessage /\ NoLeftRecursion(rules)) =>
       \A k \in DOMAIN messages : \A id \in DOMAIN rules :
          ~Overflowed(is_message_valid_using_list_of_suffixes(
                          messages[k], rules, id, {}))

\* C16 witness: count_valid_messages_p2 has accepted a message of the
\* longest length on a rewritten grammar without left recursion in which
\* rules 8 and 11 are self-referential and both helper rules 1000 and 2000
\* derive a part of the message.
C16_Witness ==
    /\ Rewritten /\ pc = "done" /\ verdicts = <<TRUE>>
    /\ Len(messages[1]) = MaxLoopMsgLen
    /\ NoLeftRecursion(rules)
    /\ SelfReferential(rules, 8) /\ SelfReferential(rules, 11)
    /\ Chart(rules, messages[1])[1000] # {}
    /\ Chart(rules, messages[1])[2000] # {}

\* A rewritten grammar with the recursive rules 8 and 11, without left
\* recursion and with every rule id that rule 0 reaches defined, in which
\* rules 8 and 11 recur through the helper rules 1000 and 2000 only (rules
\* 42 and 31 lead to none of them), before the first message is evaluated.
LoopGrammarReady ==
    /\ Rewritten /\ BeforeFirstMessage
    /\ {8, 11, 42} \subseteq DOMAIN parsed
    /\ NoLeftRecursion(rules) /\ Defined(rules, 0)
    /\ ReachVia(RefEdges(rules), {42, 31}) \cap {8, 11, 1000, 2000} = {}
    /\ ShortestLen(rules, 42) > 0

\* C17 (as stated): on a grammar with the recursive rules, the number of
\* calls the suffix recognizer makes for a recursive rule (8 or 11) while it
\* evaluates one message is at most the message length divided by the
\* shortest match length of that rule.
C17_CallsBoundedByLengthOverShortest ==
    LoopGrammarReady =>
       \A k \in DOMAIN messages : \A id \in {8, 11} :
          CallCount({id}, messages[k], rules, 0, {})
          <= Len(messages[k]) \div ShortestLen(rules, id)

\* C17 (amended): on a grammar with the recursive rules, the calls for one
\* recursive rule (8 or 11) that are on the stack at the same time number
\* at most the message length divided by the shortest match length of rule
\* 42, plus one.
C17_NestingBoundedByLengthOverShortest42 ==
    LoopGrammarReady =>
       \A k \in DOMAIN messages :
          LET bound == Len(messages[k]) \div ShortestLen(rules, 42) + 1
          IN  /\ NestingDepth({8}, messages[k], rules, 0, {}) <= bound
              /\ NestingDepth({11}, messages[k], rules, 0, {}) <= bound

\* C17 witness: on a rewritten loop grammar whose rule 42 matches two
\* characters at least, a message of the longest length makes the calls
\* for rule 8 nest as deep as the bound allows, while the calls for rule 11
\* outnumber the message length divided by the shortest match of rule 11.
C17_Witness ==
    /\ LoopGrammarReady
    /\ ShortestLen(rules, 42) >= 2
    /\ Len(messages[1]) = MaxLoopMsgLen
    /\ NestingDepth({8}, messages[1], rules, 0, {})
       = Len(messages[1]) \div ShortestLen(rules, 42) + 1
    /\ CallCount({11}, messages[1], rules, 0, {})
       > Len(messages[1]) \div ShortestLen(rules, 11)

\* The recognizer the driver of the running part applies to one message.
Evaluate(p, r, m) ==
    IF p = "p1"
    THEN is_message_valid_using_recursive_descent_wrapper(r, m)
    ELSE is_message_valid_using_list_of_suffixes_wrapper(r, m)

C18_WitnessOtherOrder ==
    /\ pc = "done"
    /\ Len(messages) = 2
    /\ verdicts = <<FALSE, TRUE>>
    /\ count = 1

\* The grammar g with rule id reduced to its alternative number a (from 1).
OnlyAlternative(g, id, a) ==
    [g EXCEPT ![id] = Alternatives(<<g[id].alts[a]>>)]

\* The message is derivable from rule 0 through an alternative of rule 0
\* after the first one, and not through the first one.
DerivableOnlyViaLaterRootAlternative(g, m) ==
    /\ 0 \in DOMAIN g /\ g[0].kind = "Alternatives"
    /\ ~SelfReferential(g, 0)
    /\ ~Derives(OnlyAlternative(g, 0, 1), m)
    /\ \E a \in 2..Len(g[0].alts) : Derives(OnlyAlternative(g, 0, a), m)

\* C19 (as stated): the backtracking recognizer tries the alternatives of
\* rule 0 in declaration order, so it accepts a message that is derivable
\* only through a later alternative of rule 0 (here on grammars whose other
\* rules are single characters, where nothing else is left to choose).
C19_LaterRootAlternativeAccepted ==
    (part = "p1" /\ Defined(rules, 0)
       /\ \A id \in DOMAIN rules \ {0} : rules[id].kind = "Char")
    => \A k \in DOMAIN verdicts :
          DerivableOnlyViaLaterRootAlternative(rules, messages[k])
          => verdicts[k]

RECURSIVE FirstEnd(_, _, _, _, _)
RECURSIVE ChainEnd(_, _, _, _, _, _)

\* The position after the first i elements of seq, matched one after the
\* other from pos, element j with its alternative cand[j]; -1 when one of
\* them does not match.
ChainEnd(g, m, pos, seq, cand, i) ==
    IF i = 0 THEN pos
    ELSE LET before == ChainEnd(g, m, pos, seq, cand, i - 1)
         IN  IF before = -1 THEN -1
             ELSE FirstEnd(g, m, before, seq[i], cand[i])

\* The index tuples of alternatives with which the elements of seq match
\* one after the other from pos, as indices into the iterator.
MatchingCandidates(g, m, pos, seq, cartesian_iter) ==
    {k \in DOMAIN cartesian_iter :
        ChainEnd(g, m, pos, seq, cartesian_iter[k], Len(seq)) # -1}

\* The position after rule_id matched at pos with its alternative number
\* alt (from 0), or -1: the end reached with the first index tuple whose
\* elements all match, each element's own result being fixed likewise.
FirstEnd(g, m, pos, rule_id, alt) ==
    IF pos >= Len(m) THEN -1
    ELSE IF g[rule_id].kind = "Char"
    THEN IF m[pos + 1] = g[rule_id].ch THEN pos + 1 ELSE -1
    ELSE LET seq == g[rule_id].alts[alt + 1]
             cartesian_iter == multi_cartesian_product(
                 [i \in DOMAIN seq |-> alt_count(g, seq[i])])
             matching == MatchingCandidates(g, m, pos, seq, cartesian_iter)
         IN  IF matching = {} THEN -1
             ELSE LET k == CHOOSE k \in matching : \A j \in matching : k <= j
                  IN  ChainEnd(g, m, pos, seq, cartesian_iter[k], Len(seq))

\* The index tuple with which the first sequence of rule 0 matched.
AcceptedCandidate(g, m) ==
    LET seq == g[0].alts[1]
        cartesian_iter == multi_cartesian_product(
            [i \in DOMAIN seq |-> alt_count(g, seq[i])])
        matching == MatchingCandidates(g, m, 0, seq, cartesian_iter)
    IN  cartesian_iter[CHOOSE k \in matching : \A j \in matching : k <= j]

\* Part 1 has evaluated a message on a grammar on which the backtracking
\* recognizer neither indexes a missing rule nor recurses without end.
RdEvaluated ==
    /\ part = "p1" /\ verdicts # <<>>
    /\ Defined(rules, 0) /\ NoLeftRecursion(rules)
    /\ rules[0].kind = "Alternatives"

\* C20 (as stated): in the backtracking recognizer, once an element of a
\* sequence has matched, the failure of a later element does not make the
\* earlier element match again with a different alternative: in the index
\* tuple with which rule 0's sequence matched, every element but the last
\* has the first of its alternatives that matches at its position.
C20_EarlierElementKeepsFirstMatch ==
    RdEvaluated =>
       \A k \in DOMAIN verdicts :
          LET m == messages[k]
              seq == rules[0].alts[1]
          IN  FirstEnd(rules, m, 0, 0, 0) # -1 =>
                 LET cand == AcceptedCandidate(rules, m)
                 IN  \A i \in 1..(Len(seq) - 1) :
                        \A a \in 0..(cand[i] - 1) :
                           FirstEnd(rules, m,
                                    ChainEnd(rules, m, 0, seq, cand, i - 1),
                                    seq[i], a) = -1

\* C20 (amended): the backtracking recognizer matches the elements of a
\* sequence again with every combination of their alternatives, in the
\* order of the cartesian product, and keeps the first combination whose
\* elements all match; what it never revisits is the combination kept
\* inside an element.  The verdict is whether that first combination, for
\* the first sequence of rule 0, ends at the end of the message.
C20_FirstMatchingCombinationKept ==
    RdEvaluated =>
       \A k \in DOMAIN verdicts :
          verdicts[k] = (FirstEnd(rules, messages[k], 0, 0, 0)
                         = Len(messages[k]))

\* C20 witness: a message was accepted with rule 0's first element matched
\* by its second alternative, after its first alternative had matched and
\* the element after it had failed.
C20_Witness ==
    /\ RdEvaluated
    /\ verdicts[1]
    /\ LET m == messages[1]
           seq == rules[0].alts[1]
           cand == AcceptedCandidate(rules, m)
       IN  /\ Len(seq) >= 2
           /\ cand[1] = 1
           /\ FirstEnd(rules, m, 0, seq[1], 0) # -1
           /\ FirstEnd(rules, m, FirstEnd(rules, m, 0, seq[1], 0), seq[2], 0)
              = -1

\* C20, the combination kept inside an element: a derivable message is
\* rejected, because the choice made inside rule 0's first element, which
\* has one alternative, is not revisited when the element after it fails.
C20_WitnessNestedChoiceKept ==
    /\ RdEvaluated
    /\ ~verdicts[1]
    /\ Derives(rules, messages[1])
    /\ Len(rules[0].alts) = 1 /\ Len(rules[0].alts[1]) >= 2
    /\ alt_count(rules, rules[0].alts[1][1]) = 1
    /\ FirstEnd(rules, messages[1], 0, rules[0].alts[1][1], 0) # -1
    /\ FirstEnd(rules, messages[1], 0, 0, 0) = -1

\* The rule ids of the terminal rules of a grammar.
Terminals(g) == {id \in DOMAIN g : g[id].kind = "Char"}

\* C21: in the backtracking recognizer a terminal rule at position p matches
\* iff p is before the end of the message and the character at p is the
\* terminal's, and then returns p + 1; at the end of the message or on
\* another character it reports no match (and returns p).  A message that
\* part 1 accepts on a grammar `0: t` with t a terminal is that character.
C21_TerminalMatchesOneCharacter ==
    /\ (part = "p1" /\ BeforeFirstMessage) =>
          \A k \in DOMAIN messages : \A id \in Terminals(rules) :
             \A p \in 0..Len(messages[k]) :
                LET m == messages[k]
                    res == is_message_valid_using_recursive_descent(
                               m, rules, p, id, 0, <<>>, <<>>, {})
                    here == p < Len(m) /\ m[p + 1] = rules[id].ch
                IN  /\ ~res.panic
                    /\ res.is_match = here
                    /\ res.pos = IF here THEN p + 1 ELSE p
    /\ (part = "p1" /\ 0 \in DOMAIN rules /\ rules[0].kind = "Alternatives"
          /\ Len(rules[0].alts[1]) = 1
          /\ rules[0].alts[1][1] \in Terminals(rules)) =>
          \A k \in DOMAIN verdicts :
             verdicts[k] = (messages[k] = <<rules[rules[0].alts[1][1]].ch>>)

\* C21 witness: part 1 has accepted a message of one character on a grammar
\* whose rule 0 is one terminal, and the messages of the model also make a
\* terminal fail at a position before the end and at the end.
C21_Witness ==
    /\ part = "p1" /\ pc = "done" /\ verdicts = <<TRUE>>
    /\ Len(rules[0].alts[1]) = 1
    /\ rules[0].alts[1][1] \in Terminals(rules)
    /\ Len(messages[1]) = 1

\* C21, the failing cases: part 1 has rejected a message whose first
\* character is not the terminal of `0: t`, and one that is longer than the
\* terminal.
C21_WitnessMismatch ==
    /\ part = "p1" /\ pc = "done" /\ verdicts = <<FALSE>>
    /\ Len(rules[0].alts[1]) = 1
    /\ rules[0].alts[1][1] \in Terminals(rules)
    /\ messages[1] # <<>>
    /\ messages[1][1] # rules[rules[0].alts[1][1]].ch

\* The forms of the grammar of part 1 in which rules 8 and 11 refer to
\* themselves, directly or through the helper rules, and no rule can begin
\* a derivation of itself.
SelfReferringForms ==
    {g \in {rules, DirectLoop(parsed), add_loop_to_rules(parsed)} :
        /\ {8, 11} \subseteq DOMAIN g
        /\ SelfReferential(g, 8) /\ SelfReferential(g, 11)
        /\ NoLeftRecursion(g) /\ Defined(g, 0)}

\* C22: the backtracking recognizer terminates on every message for a
\* grammar whose rules 8 and 11 refer to themselves (`42 | 42 8`,
\* `42 31 | 42 11 31`, directly or through helper rules) and in which every
\* self-reference comes after a consumed character: no call is made for a
\* rule, alternative and position for which a call is already on the stack.
C22_BacktrackingTerminatesOnLoops ==
    /\ (part = "p1" /\ BeforeFirstMessage) =>
          \A g \in SelfReferringForms : \A k \in DOMAIN messages :
             is_message_valid_using_recursive_descent_wrapper(g, messages[k])
             # "panic"
    /\ (part = "p1" /\ pc = "panic") => rules \notin SelfReferringForms

\* C22 witness: part 1 has finished on a grammar whose rules 8 and 11 refer
\* to themselves through rules 1000 and 2000, on a longest message of the
\* character rule 42 matches, which takes the recognizer through the
\* self-references.
C22_Witness ==
    /\ part = "p1" /\ pc = "done"
    /\ rules \in SelfReferringForms
    /\ Len(messages[1]) = MaxLoopMsgLen
    /\ \A i \in DOMAIN messages[1] : messages[1][i] = "a"
    /\ Chart(rules, messages[1])[1000] # {}
    /\ Chart(rules, messages[1])[42] # {}

\* Stacks a call is entered with, other than the empty ones of the wrapper.
EntryApplied == <<0, 7>>
EntryLeft == <<9, 5>>

\* C23: whenever is_message_valid_using_recursive_descent or
\* check_if_matches_sequence reports no match, for any rule, alternative,
\* sequence and position of the message, the position it returns is the
\* position it was entered with and the rules_applied and rules_left
\* stacks it leaves are those it was entered with.
C23_NoMatchRestoresEntryState ==
    (part = "p1" /\ BeforeFirstMessage) =>
       \A k \in DOMAIN messages : \A p \in 0..Len(messages[k]) :
          \A id \in DOMAIN rules : \A a \in 0..(alt_count(rules, id) - 1) :
             LET m == messages[k]
                 res == is_message_valid_using_recursive_descent(
                            m, rules, p, id, a, EntryApplied, EntryLeft, {})
                 seq == IF rules[id].kind = "Char" THEN <<id>>
                        ELSE rules[id].alts[a + 1]
                 sres == check_if_matches_sequence(
                             m, rules, seq, p, EntryApplied, EntryLeft, {})
             IN  /\ (~res.panic /\ ~res.is_match) =>
                       /\ res.pos = p
                       /\ res.rules_applied = EntryApplied
                       /\ res.rules_left = EntryLeft
                 /\ (~sres.panic /\ ~sres.is_match) =>
                       /\ sres.pos = p
                       /\ sres.rules_applied = EntryApplied
                       /\ sres.rules_left = EntryLeft

\* C23 witness: part 1 has rejected a message after the first element of
\* rule 0's sequence had matched and a later element failed with every
\* candidate, so that what the matched element had pushed was rolled back.
C23_Witness ==
    /\ RdEvaluated /\ pc = "done"
    /\ verdicts = <<FALSE>>
    /\ Len(rules[0].alts[1]) >= 2
    /\ alt_count(rules, rules[0].alts[1][1]) = 2
    /\ FirstEnd(rules, messages[1], 0, rules[0].alts[1][1], 0) # -1
    /\ FirstEnd(rules, messages[1], 0, rules[0].alts[1][1], 1) # -1
    /\ FirstEnd(rules, messages[1], 0, 0, 0) = -1

InNomLoops == part = "nom" /\ pc \in {"outer", "inner"}

\* C25: for every non-recursive rule, rule_shortest_matching_len returns the
\* length of the shortest terminal string derivable from the rule, the
\* minimum over its alternatives of the summed shortest lengths.
C25_ShortestLenIsMinimum ==
    InNomLoops =>
       \A id \in DOMAIN rules :
          ~RecursionAborts(rules, id) =>
             rule_shortest_matching_len(rules, id) = ShortestLen(rules, id)

\* is_message_valid_using_nom has returned v for the only message.
NomReturned(v) ==
    part = "nom" /\ pc \in {"count", "done"} /\ verdicts = <<v>>

\* C26: the search over repeat counts never skips a pair that could match:
\* when it has returned false, no pair of repeat counts makes p_8 followed
\* by p_11 parse the whole message (a pair with a count above the message
\* length consumes more characters than the message has).
C26_NoMatchingPairSkipped ==
    NomReturned(FALSE) =>
       \A n8, n11 \in 1..Len(messages[1]) :
          ~ParsesWithCounts(rules, messages[1], n8, n11)

\* C27: for every grammar whose rule 0 is `8 11` with non-recursive rules
\* 42 and 31, and every message, is_message_valid_using_nom returns the
\* verdict of the suffix recognizer on the rewritten grammar.
C27_NomAgreesWithSuffixRecognizer ==
    \A v \in BOOLEAN :
       (/\ NomReturned(v)
        /\ parsed[0] = Alternatives(<< <<8, 11>> >>)
        /\ ~RecursionAborts(parsed, 42) /\ ~RecursionAborts(parsed, 31))
       => (v <=> is_message_valid_using_list_of_suffixes_wrapper(
                     rules, messages[1]) = "true")

Occurrences(ids, x) == Cardinality({i \in DOMAIN ids : ids[i] = x})

RECURSIVE PathCount(_, _, _)
\* The number of reference paths from rule `from' to rule id, the path of
\* no step from id to itself included.
PathCount(g, from, id) ==
    (IF from = id THEN 1 ELSE 0)
    + (IF g[from].kind = "Char" THEN 0
       ELSE SumSeq([k \in DOMAIN g[from].alts |->
               SumSeq([j \in DOMAIN g[from].alts[k] |->
                  PathCount(g, g[from].alts[k][j], id)])]))

\* prepare_part2_sub_parsers has filled nom_map.
NomMapFilled == part = "nom" /\ nom_map # <<>>

\* C28 as stated: when the compiled matcher is built, the parser of each
\* rule id is constructed at most once.
C28_EachRuleConstructedOnce ==
    NomMapFilled => \A id \in DOMAIN rules : Occurrences(built, id) <= 1

\* C28 amended: nom_map holds one parser for 31 and one for 42, each the
\* construction made for that key, and building p_8 and p_11 for any repeat
\* counts constructs nothing (they share the two); inside a rule body every
\* reference constructs a parser of its own, so a rule id has as many
\* constructions as there are reference paths to it from 31 and from 42.
C28_OnlyStoredParsersShared ==
    NomMapFilled =>
       /\ DOMAIN nom_map = {31, 42}
       /\ nom_map[31] # nom_map[42]
       /\ \A id \in {31, 42} :
             nom_map[id] \in DOMAIN built /\ built[nom_map[id]] = id
       /\ \A id \in DOMAIN rules :
             Occurrences(built, id) =
                PathCount(rules, 31, id) + PathCount(rules, 42, id)

\* C28 witness: the inner loop runs with p_8 repeating the stored parser of
\* 42 twice, and some rule id has been constructed twice.
C28_Witness ==
    /\ NomMapFilled /\ pc = "inner" /\ p_8_repeat_count = 2
    /\ \E id \in DOMAIN rules : Occurrences(built, id) >= 2

\* C29: is_message_valid_using_nom terminates: once in its loops, the
\* program gets to the return of the call, by a match or by the cutoff.
C29_NomLoopsAreLeft == InNomLoops ~> (part = "nom" /\ pc = "count")

\* C29 witness: the call has returned false after the inner loop was left
\* by the cutoff twice and the outer loop in its third round.
C29_Witness == NomReturned(FALSE) /\ p_8_repeat_count = 3

\* C29 witness: the call has returned true from the second round of the
\* outer loop.
C29_WitnessMatch == NomReturned(TRUE) /\ p_8_repeat_count = 2

\* C30: on the empty text the suffix recognizer returns no suffix for
\* every rule id, and the empty message is rejected by the suffix recognizer
\* and by the backtracking recognizer (which looks up rule 0 before it looks
\* at the text), for every rule map with a rule 0: as the functions return
\* it, and as the drivers record it for an empty message among the input's.
C30_EmptyTextRejected ==
    /\ BeforeFirstMessage =>
          /\ \A id \in DOMAIN rules \cup {0, 3} :
                is_message_valid_using_list_of_suffixes(<<>>, rules, id, {})
                   = <<>>
          /\ is_message_valid_using_list_of_suffixes_wrapper(rules, <<>>)
                = "false"
          /\ 0 \in DOMAIN rules =>
                is_message_valid_using_recursive_descent_wrapper(rules, <<>>)
                   = "false"
    /\ \A k \in DOMAIN verdicts : messages[k] = <<>> => ~verdicts[k]
    /\ (pc = "panic" /\ Len(verdicts) < Len(messages)) =>
          messages[Len(verdicts) + 1] # <<>>

\* C30 witness: part 2 has rejected the empty first message and accepted
\* the second message.
C30_Witness ==
    /\ part = "p2" /\ pc = "done"
    /\ messages[1] = <<>> /\ verdicts = <<FALSE, TRUE>>

\* C30 witness: part 1 has rejected the empty first message and accepted
\* the second message.
C30_WitnessBacktracking ==
    /\ part = "p1" /\ pc = "done"
    /\ messages[1] = <<>> /\ verdicts = <<FALSE, TRUE>>

====
